---------------------------- MODULE Spec2Model ----------------------------
(***************************************************************************)
(* Model of renumber_folders.py: the two-phase renumbering of the          *)
(* directories "<digits>. <label>" of the script's own directory.          *)
(*                                                                         *)
(* A name is a sequence of one-character strings, so that the regular      *)
(* expression of line 32, int() of line 33 and the format strings of lines *)
(* 35 and 45 are computed on the characters.  The directory tree is a set  *)
(* of entries; an entry carries its current name, whether it is a          *)
(* directory or a file, and two ghost fields: the name it had when the run *)
(* started (its identity) and the phases in which it was renamed.          *)
(***************************************************************************)
EXTENDS Naturals, Sequences, FiniteSets

VARIABLES
    renumbering,   \* the dict of lines 11-21: old ordinal -> new ordinal
    fs,            \* the entries of base_dir now
    fs0,           \* ghost: the entries of base_dir when this run started
    fsFirst,       \* ghost: the entries of base_dir when the first run started
    pc,            \* "phase1", "phase2", "done" (line 49 printed), "aborted"
    order,         \* the sorted list the running for loop iterates (line 26, 43)
    idx,           \* position of the running for loop in that list
    temp_renames,  \* the dict of line 25: new ordinal -> <<temp_name, label>>
    out,           \* the rename lines printed so far (lines 36 and 46)
    err,           \* "none", or the exception that ended the run
    run            \* which execution of the script this is

vars == <<renumbering, fs, fs0, fsFirst, pc, order, idx, temp_renames, out, err, run>>

---------------------------------------------------------------------------
(* Bounds of the model.                                                    *)

\* the largest number of entries in the directory when the first run starts
MaxEntries == 3

\* how many times the script is executed in a row
MaxRuns == 2

---------------------------------------------------------------------------
(* Characters, int() and the format specification 02d.                     *)

Digit == {"0", "1", "2", "3", "4", "5", "6", "7", "8", "9"}

\* what \s matches among the characters of the model
Whitespace == {" ", "\t", "\n"}

\* the one character that "." does not match and before which "$" matches
Newline == "\n"

DigitValue(c) ==
    CASE c = "0" -> 0 [] c = "1" -> 1 [] c = "2" -> 2 [] c = "3" -> 3
      [] c = "4" -> 4 [] c = "5" -> 5 [] c = "6" -> 6 [] c = "7" -> 7
      [] c = "8" -> 8 [] c = "9" -> 9

DigitChar(d) == CHOOSE c \in Digit : DigitValue(c) = d

\* int(match.group(1)): the value of a sequence of decimal digits
RECURSIVE IntOf(_)
IntOf(ds) ==
    IF ds = <<>> THEN 0
    ELSE 10 * IntOf(SubSeq(ds, 1, Len(ds) - 1)) + DigitValue(ds[Len(ds)])

\* the decimal digits of n, without padding
RECURSIVE Decimal(_)
Decimal(n) ==
    IF n < 10 THEN <<DigitChar(n)>>
    ELSE Decimal(n \div 10) \o <<DigitChar(n % 10)>>

\* f"{n:02d}": the decimal digits of n, zero-padded to at least two
Fmt02(n) == IF n < 10 THEN <<"0">> \o Decimal(n) ELSE Decimal(n)

---------------------------------------------------------------------------
(* The regular expression  ^(\d+)\.\s(.+)$  of line 32.                    *)

\* the length of the longest prefix of s made of digits: what \d+ takes,
\* since the next character has to be the period
RECURSIVE LeadingDigits(_)
LeadingDigits(s) ==
    IF s # <<>> /\ Head(s) \in Digit THEN 1 + LeadingDigits(Tail(s)) ELSE 0

NoNewline(s) == \A p \in 1..Len(s) : s[p] # Newline

NoMatch == [ok |-> FALSE, num |-> 0, label |-> <<>>]

\* re.match(r'^(\d+)\.\s(.+)$', name) with int(group(1)) and group(2):
\* digits, a period, one whitespace character, then one or more characters
\* other than a line break, up to the end of the name or to a line break
\* that ends the name
Match(name) ==
    LET k    == LeadingDigits(name)
        rest == SubSeq(name, k + 3, Len(name))
        body == IF rest # <<>> /\ rest[Len(rest)] = Newline
                THEN SubSeq(rest, 1, Len(rest) - 1)
                ELSE rest
    IN  IF /\ k >= 1
           /\ Len(name) >= k + 3
           /\ name[k + 1] = "."
           /\ name[k + 2] \in Whitespace
        THEN IF NoNewline(rest)
             THEN [ok |-> TRUE, num |-> IntOf(SubSeq(name, 1, k)), label |-> rest]
             ELSE IF body # <<>> /\ NoNewline(body)
                  THEN [ok |-> TRUE, num |-> IntOf(SubSeq(name, 1, k)),
                        label |-> body]
                  ELSE NoMatch
        ELSE NoMatch

\* mutant of TempName: the directory is renamed to its final name at once,
\* without the TEMP_ marker
TempName_NoPrefix(new_num, label) == Fmt02(new_num) \o <<".", " ">> \o label

\* f"TEMP_{new_num:02d}. {match.group(2)}" of line 35
TempName(new_num, label) ==
    <<"T", "E", "M", "P", "_">> \o Fmt02(new_num) \o <<".", " ">> \o label

\* mutant of FinalName: the format specification 02d is left out
FinalName_Unpadded(new_num, rest) == Decimal(new_num) \o <<".", " ">> \o rest

\* mutant of FinalName: the temporary name is used in place of the label
FinalName_FromTempName(new_num, rest) ==
    Fmt02(new_num) \o <<".", " ", "T", "E", "M", "P", "_">>
        \o Fmt02(new_num) \o <<".", " ">> \o rest

\* f"{new_num:02d}. {rest}" of line 45
FinalName(new_num, rest) == Fmt02(new_num) \o <<".", " ">> \o rest

---------------------------------------------------------------------------
(* sorted() over the keys of a dict.                                       *)

Max(S) == CHOOSE m \in S : \A x \in S : x <= m
Min(S) == CHOOSE m \in S : \A x \in S : m <= x

RECURSIVE SortedAsc(_)
SortedAsc(S) ==
    IF S = {} THEN <<>> ELSE <<Min(S)>> \o SortedAsc(S \ {Min(S)})

RECURSIVE SortedDesc(_)
SortedDesc(S) ==
    IF S = {} THEN <<>> ELSE <<Max(S)>> \o SortedDesc(S \ {Max(S)})

\* mutant of Phase1Order: reverse=True is left out
Phase1Order_Ascending(map) == SortedAsc(DOMAIN map)

\* sorted(renumbering.keys(), reverse=True) of line 26
Phase1Order(map) == SortedDesc(DOMAIN map)

\* sorted(temp_renames.keys()) of line 43
Phase2Order(dict) == SortedAsc(DOMAIN dict)

---------------------------------------------------------------------------
(* The directory tree and Path.rename.                                     *)

Entry(name, kind) == [orig |-> name, name |-> name, kind |-> kind, hops |-> <<>>]

\* mutant of Matching: the ordinal of the name is not compared with old_num
Matching_AnyOrdinal(tree, old_num) ==
    {e \in tree : e.kind = "dir" /\ Match(e.name).ok}

\* the children for which line 31 to 33 hold for old_num; iterdir() yields
\* the children in an order the file system chooses, so any of them can be
\* the first
Matching(tree, old_num) ==
    {e \in tree : /\ e.kind = "dir"
                  /\ Match(e.name).ok
                  /\ Match(e.name).num = old_num}

\* whether renaming the directory src to the name dst can succeed: the name
\* is free, or it is held by a directory, which rename(2) replaces when that
\* directory is empty (and which fails on Windows, or when it is not empty);
\* a directory is never renamed onto a file
CanRename(tree, src, dst) ==
    /\ src \in tree
    /\ \A e \in tree : e.name = dst /\ e # src => e.kind = "dir"

\* the tree after a successful rename of src to dst in phase ph
Rename(tree, src, dst, ph) ==
    {e \in tree : e # src /\ e.name # dst}
        \cup {[src EXCEPT !.name = dst, !.hops = Append(@, ph)]}

Line(ph, from, to) == [phase |-> ph, from |-> from, to |-> to]

EmptyDict == [n \in {} |-> <<>>]

\* temp_renames[new_num] = (temp_name, label) of line 38
Record(dict, new_num, temp_name, label) ==
    [n \in DOMAIN dict \cup {new_num} |->
        IF n = new_num THEN <<temp_name, label>> ELSE dict[n]]

---------------------------------------------------------------------------
(* The inputs: the renumbering map and the directory the script is run in. *)

\* the dict literal of lines 11 to 21
SourceMap ==
    [n \in 8..33 |->
        CASE n = 26 -> 33 [] n = 25 -> 32 [] n = 24 -> 31
          [] n = 29 -> 30
          [] n = 23 -> 29 [] n = 22 -> 28 [] n = 21 -> 27
          [] n = 20 -> 26 [] n = 19 -> 25
          [] n = 32 -> 24 [] n = 31 -> 23 [] n = 28 -> 22 [] n = 27 -> 21
          [] n = 18 -> 20 [] n = 17 -> 19 [] n = 16 -> 18
          [] n = 15 -> 17 [] n = 14 -> 16 [] n = 13 -> 15
          [] n = 12 -> 14 [] n = 11 -> 13 [] n = 10 -> 12
          [] n = 9 -> 11 [] n = 8 -> 10
          [] n = 33 -> 9 [] n = 30 -> 8]

\* other values of the literal: a chain whose new ordinals overlap the old
\* ones, a cycle, a map with new ordinals disjoint from the old ones, and a
\* map that sends two old ordinals to one new ordinal
ChainMap    == [n \in {8, 9, 10} |-> n + 2]
CycleMap    == [n \in {8, 10} |-> IF n = 8 THEN 10 ELSE 8]
DisjointMap == [n \in {8, 9} |-> IF n = 8 THEN 10 ELSE 12]
MergeMap    == [n \in {8, 9} |-> 10]

Maps == {SourceMap, ChainMap, CycleMap, DisjointMap, MergeMap}

\* the names an entry of the directory can have when the first run starts
CandidateNames ==
    { <<"0", "8", ".", " ", "A">>,
      <<"8", ".", " ", "B">>,
      <<"0", "9", ".", " ", "A">>,
      <<"0", "9", ".", " ", "B", "\n">>,
      <<"1", "0", ".", " ", "A">>,
      <<"1", "2", ".", " ", "A">>,
      <<"3", "3", ".", " ", "A">>,
      <<"T", "E", "M", "P", "_", "1", "0", ".", " ", "A">>,
      <<"n", "o", "t", "e", "s">> }

Kinds == {"dir", "file"}

\* the directories the first run can start in: at most MaxEntries entries,
\* no two with the same name
Trees ==
    {t \in SUBSET {Entry(n, k) : n \in CandidateNames, k \in Kinds} :
        /\ Cardinality(t) <= MaxEntries
        /\ \A a, b \in t : a.name = b.name => a = b}

---------------------------------------------------------------------------
(* The script.                                                             *)

Init ==
    /\ renumbering \in Maps
    /\ fs \in Trees
    /\ fs0 = fs
    /\ fsFirst = fs
    /\ pc = "phase1"
    /\ order = Phase1Order(renumbering)
    /\ idx = 1
    /\ temp_renames = EmptyDict
    /\ out = <<>>
    /\ err = "none"
    /\ run = 1

\* lines 26 to 39, a directory matches old_num and item.rename succeeds
Stage ==
    /\ pc = "phase1"
    /\ idx <= Len(order)
    /\ LET old_num == order[idx] IN
       /\ old_num \in DOMAIN renumbering
       /\ \E item \in Matching(fs, old_num) :
            LET new_num   == renumbering[old_num]
                label     == Match(item.name).label
                temp_name == TempName(new_num, label)
            IN  /\ CanRename(fs, item, temp_name)
                /\ out' = Append(out, Line(1, item.name, temp_name))
                /\ fs' = Rename(fs, item, temp_name, 1)
                /\ temp_renames' = Record(temp_renames, new_num, temp_name, label)
    /\ idx' = idx + 1
    /\ UNCHANGED <<renumbering, order, fs0, fsFirst, pc, err, run>>

\* mutant of StageFails: the exception is caught and the loop goes on
StageFails_Swallowed ==
    /\ pc = "phase1"
    /\ idx <= Len(order)
    /\ LET old_num == order[idx] IN
       \E item \in Matching(fs, old_num) :
            LET new_num   == renumbering[old_num]
                temp_name == TempName(new_num, Match(item.name).label)
            IN  out' = Append(out, Line(1, item.name, temp_name))
    /\ err' = "OSError"
    /\ idx' = idx + 1
    /\ UNCHANGED <<renumbering, order, fs, fs0, fsFirst, pc, temp_renames, run>>

\* lines 26 to 37, a directory matches old_num and item.rename raises
StageFails ==
    /\ pc = "phase1"
    /\ idx <= Len(order)
    /\ LET old_num == order[idx] IN
       /\ old_num \in DOMAIN renumbering
       /\ \E item \in Matching(fs, old_num) :
            LET new_num   == renumbering[old_num]
                temp_name == TempName(new_num, Match(item.name).label)
            IN  out' = Append(out, Line(1, item.name, temp_name))
    /\ err' = "OSError"
    /\ pc' = "aborted"
    /\ UNCHANGED <<renumbering, order, fs, fs0, fsFirst, idx, temp_renames, run>>

\* mutant of Skip: an old ordinal without a directory is an error
Skip_Raises ==
    /\ pc = "phase1"
    /\ idx <= Len(order)
    /\ Matching(fs, order[idx]) = {}
    /\ err' = "KeyError"
    /\ pc' = "aborted"
    /\ UNCHANGED <<renumbering, order, fs, fs0, fsFirst, idx, temp_renames, out, run>>

\* lines 26 to 33, no child matches old_num: the inner loop ends without a
\* rename
Skip ==
    /\ pc = "phase1"
    /\ idx <= Len(order)
    /\ Matching(fs, order[idx]) = {}
    /\ idx' = idx + 1
    /\ UNCHANGED <<renumbering, order, fs, fs0, fsFirst, pc, temp_renames, out, err, run>>

\* line 26 exhausted, lines 41 to 43
EnterPhase2 ==
    /\ pc = "phase1"
    /\ idx > Len(order)
    /\ pc' = "phase2"
    /\ order' = Phase2Order(temp_renames)
    /\ idx' = 1
    /\ UNCHANGED <<renumbering, fs, fs0, fsFirst, temp_renames, out, err, run>>

\* lines 43 to 47, the rename succeeds
Commit ==
    /\ pc = "phase2"
    /\ idx <= Len(order)
    /\ LET new_num    == order[idx]
           temp_name  == temp_renames[new_num][1]
           rest       == temp_renames[new_num][2]
           final_name == FinalName(new_num, rest)
       IN  \E item \in {e \in fs : e.name = temp_name} :
             /\ CanRename(fs, item, final_name)
             /\ out' = Append(out, Line(2, temp_name, final_name))
             /\ fs' = Rename(fs, item, final_name, 2)
    /\ idx' = idx + 1
    /\ UNCHANGED <<renumbering, order, fs0, fsFirst, pc, temp_renames, err, run>>

\* lines 43 to 47, the rename raises
CommitFails ==
    /\ pc = "phase2"
    /\ idx <= Len(order)
    /\ LET new_num    == order[idx]
           temp_name  == temp_renames[new_num][1]
           final_name == FinalName(new_num, temp_renames[new_num][2])
       IN  out' = Append(out, Line(2, temp_name, final_name))
    /\ err' = "OSError"
    /\ pc' = "aborted"
    /\ UNCHANGED <<renumbering, order, fs, fs0, fsFirst, idx, temp_renames, run>>

\* line 43 exhausted, line 49
Complete ==
    /\ pc = "phase2"
    /\ idx > Len(order)
    /\ pc' = "done"
    /\ UNCHANGED <<renumbering, order, fs, fs0, fsFirst, idx, temp_renames, out, err, run>>

\* the script is executed again on the directory the last run left
Rerun ==
    /\ pc = "done"
    /\ run < MaxRuns
    /\ run' = run + 1
    /\ fs' = {Entry(e.name, e.kind) : e \in fs}
    /\ fs0' = fs'
    /\ pc' = "phase1"
    /\ order' = Phase1Order(renumbering)
    /\ idx' = 1
    /\ temp_renames' = EmptyDict
    /\ out' = <<>>
    /\ UNCHANGED <<renumbering, fsFirst, err>>

Next ==
    \/ Stage
    \/ StageFails
    \/ Skip
    \/ EnterPhase2
    \/ Commit
    \/ CommitFails
    \/ Complete
    \/ Rerun

Spec == Init /\ [][Next]_vars

---------------------------------------------------------------------------
(* Vocabulary of the properties: the naming pattern "<N>. <label>" read    *)
(* off a name, and the conditions on the map and on the directory.         *)

\* the name is one or more digits, a period, a space, then some text
HasPattern(name) ==
    LET k == LeadingDigits(name)
    IN  k >= 1 /\ Len(name) >= k + 3 /\ name[k + 1] = "." /\ name[k + 2] = " "

\* the ordinal of a name that has the pattern
Ordinal(name) == IntOf(SubSeq(name, 1, LeadingDigits(name)))

\* the label of a name that has the pattern: all that follows the separator
Suffix(name) == SubSeq(name, LeadingDigits(name) + 3, Len(name))

HasTempPrefix(name) ==
    Len(name) >= 5 /\ SubSeq(name, 1, 5) = <<"T", "E", "M", "P", "_">>

OldOrdinals == DOMAIN renumbering
NewOrdinals == {renumbering[k] : k \in DOMAIN renumbering}

\* the directories of a tree that carry the ordinal k
Carrying(tree, k) ==
    {d \in tree : d.kind = "dir" /\ HasPattern(d.name) /\ Ordinal(d.name) = k}

\* the entry of the directory now that started the run as d, if it is left
Now(d) == {e \in fs : e.orig = d.name}

\* d still has the name it had when the run started
KeepsName(d) == \E e \in Now(d) : e.name = d.name /\ e.hops = <<>>

\* no two old ordinals share a new ordinal
Injective == \A a, b \in OldOrdinals : renumbering[a] = renumbering[b] => a = b

\* no old ordinal is carried by two directories of the tree
UniqueOrdinals(tree) ==
    \A a, b \in tree :
        (/\ a.kind = "dir" /\ HasPattern(a.name)
         /\ b.kind = "dir" /\ HasPattern(b.name)
         /\ Ordinal(a.name) = Ordinal(b.name)
         /\ Ordinal(a.name) \in OldOrdinals) => a = b

\* no directory of the tree carries an old ordinal
AllMissing(tree) ==
    \A d \in tree :
        ~(d.kind = "dir" /\ HasPattern(d.name) /\ Ordinal(d.name) \in OldOrdinals)

NoLineBreaks(tree) == \A d \in tree : NoNewline(d.name)

NoTempNames(tree) == \A d \in tree : d.kind = "dir" => ~HasTempPrefix(d.name)

\* no directory of the tree carries a new ordinal that is not an old one
NoStrayTargets(tree) ==
    \A d \in tree :
        (d.kind = "dir" /\ HasPattern(d.name) /\ Ordinal(d.name) \in NewOrdinals)
            => Ordinal(d.name) \in OldOrdinals

\* d was renumbered: it is in the directory under the new ordinal of its
\* old one, with the label it had
Renumbered(d) ==
    \E e \in Now(d) : /\ e.kind = "dir"
                      /\ HasPattern(e.name)
                      /\ Ordinal(e.name) = renumbering[Ordinal(d.name)]
                      /\ Suffix(e.name) = Suffix(d.name)

AllRenumbered ==
    \A k \in OldOrdinals : \A d \in Carrying(fs0, k) : Renumbered(d)

---------------------------------------------------------------------------
(* C1 *)

\* C1 as stated: for every injective map, when a run has completed, every
\* directory that carried an old ordinal of the map when the run started is
\* in the directory under the mapped new ordinal, with its label unchanged.
C1_Original == (pc = "done" /\ Injective) => AllRenumbered

\* C1, amended: the same, for the runs that start in a directory where no
\* old ordinal is carried by two directories and no name holds a line break.
C1_Renumbered ==
    (pc = "done" /\ Injective /\ UniqueOrdinals(fs0) /\ NoLineBreaks(fs0))
        => AllRenumbered

\* the scenario of the specification: 8 -> 10 while 10 -> 12, both carried
C1_Witness ==
    /\ pc = "done"
    /\ renumbering = ChainMap
    /\ UniqueOrdinals(fs0) /\ NoLineBreaks(fs0)
    /\ \E a \in Carrying(fs0, 8) : \E b \in Carrying(fs0, 10) :
          /\ Suffix(a.name) = Suffix(b.name)
          /\ Renumbered(a) /\ Renumbered(b)

---------------------------------------------------------------------------
(* C2 *)

\* the step prints a rename line whose target is a name that no other
\* directory holds
TargetFree ==
    Len(out') > Len(out) =>
        LET l == out'[Len(out')]
        IN  \A e \in fs : (e.kind = "dir" /\ e.name = l.to) => e.name = l.from

\* C2 as stated: whatever the map, no rename of phase 1 or of phase 2
\* targets a name that another directory holds.
C2_Original == [][TargetFree]_vars

\* C2, amended: no rename of phase 1 or of phase 2 targets a name that
\* another directory holds, in the runs with an injective map that start in
\* a directory where no old ordinal is carried by two directories, no
\* directory carries a new ordinal that is not an old one, and no directory
\* name starts with TEMP_.
C2_CollisionFree ==
    [][TargetFree \/ ~(/\ NoTempNames(fs0)
                       /\ NoStrayTargets(fs0)
                       /\ UniqueOrdinals(fs0)
                       /\ Injective)]_vars

\* a cycle 8 -> 10 -> 8 with both ordinals carried has run to completion
C2_Witness ==
    /\ pc = "done"
    /\ renumbering = CycleMap
    /\ UniqueOrdinals(fs0) /\ NoStrayTargets(fs0) /\ NoTempNames(fs0)
    /\ \E a \in Carrying(fs0, 8) : \E b \in Carrying(fs0, 10) :
          /\ Suffix(a.name) = Suffix(b.name)
          /\ Renumbered(a) /\ Renumbered(b)

---------------------------------------------------------------------------
(* C3 *)

\* a run in which no rename was attempted and the directory is as it was
NothingDone == out = <<>> /\ fs = fs0

\* C3 as stated: a run that follows a completed run of the same map skips
\* every key and leaves the directory unchanged.
C3_Original == run >= 2 => NothingDone

\* C3, amended: a run that follows a completed run of the same map skips
\* every key and leaves the directory unchanged, when no new ordinal of the
\* map is an old ordinal and the first run started in a directory where no
\* old ordinal is carried by two directories.
C3_Idempotent ==
    (/\ run >= 2
     /\ NewOrdinals \cap OldOrdinals = {}
     /\ UniqueOrdinals(fsFirst)) => NothingDone

\* the second run has completed after a first run that renamed a directory
C3_Witness ==
    /\ run = 2
    /\ pc = "done"
    /\ NewOrdinals \cap OldOrdinals = {}
    /\ UniqueOrdinals(fsFirst)
    /\ \E k \in OldOrdinals : Carrying(fsFirst, k) # {}
    /\ fs # {Entry(e.name, e.kind) : e \in fsFirst}

---------------------------------------------------------------------------
(* C4 *)

\* the entries the run has no business with: files, directories without
\* the pattern, directories whose ordinal is not an old ordinal of the map
Framed(d) ==
    \/ d.kind = "file"
    \/ ~HasPattern(d.name)
    \/ Ordinal(d.name) \notin OldOrdinals

\* C4: throughout and after a run, every file, every directory without the
\* pattern and every directory whose ordinal is not a key of the map has
\* the name it had when the run started: it was not renamed and it was not
\* replaced by a renamed directory.
C4_Frame == \A d \in fs0 : Framed(d) => KeepsName(d)

---------------------------------------------------------------------------
(* C5 *)

\* the loop of phase 1 stands at an old ordinal that no directory carries
AtMissing ==
    /\ pc = "phase1"
    /\ idx <= Len(order)
    /\ Carrying(fs, order[idx]) = {}

\* C5: the iteration of phase 1 for an old ordinal that no directory
\* carries renames nothing, attempts nothing, records nothing, raises
\* nothing and hands over to the next old ordinal, which it is always able
\* to do; and a run in which every old ordinal is missing changes nothing,
\* never aborts and, until it has completed, has its next step to take.
C5_MissingSkipped ==
    /\ [][AtMissing =>
            /\ fs' = fs
            /\ out' = out
            /\ temp_renames' = temp_renames
            /\ err' = "none"
            /\ pc' = "phase1"
            /\ idx' = idx + 1]_vars
    /\ [](AtMissing => ENABLED Skip)
    /\ [](AllMissing(fs0)
             => /\ NothingDone
                /\ pc \in {"phase1", "phase2", "done"}
                /\ pc # "done" => ENABLED (Skip \/ EnterPhase2 \/ Complete))

\* a run has completed in which one old ordinal was missing and another
\* was renumbered
C5_Witness ==
    /\ pc = "done"
    /\ \E k \in OldOrdinals : Carrying(fs0, k) = {}
    /\ \E k \in OldOrdinals : \E d \in Carrying(fs0, k) : Renumbered(d)

---------------------------------------------------------------------------
(* C6 *)

\* C6: the step in which a rename fails changes no name and ends the run
\* in the error state, and from the error state nothing is renamed,
\* attempted or completed.
C6_FailureAborts ==
    [][/\ err' # "none" => (pc' = "aborted" /\ fs' = fs)
       /\ err # "none" => (out' = out /\ pc' = pc)]_vars

\* a run has aborted on a rename whose target exists, after it had renamed
\* a directory, and that directory has its new name still
C6_Witness ==
    /\ err # "none"
    /\ pc = "aborted"
    /\ Len(out) >= 2
    /\ \E e \in fs : e.name = out[Len(out)].to
    /\ \E e \in fs : e.name = out[1].to /\ e.orig = out[1].from

---------------------------------------------------------------------------
(* C7 *)

\* C7: the rename lines of phase 1 come in strictly descending order of
\* old ordinal, those of phase 2 in strictly ascending order of new
\* ordinal, and no line of phase 1 follows a line of phase 2.
C7_Ordering ==
    \A a, b \in 1..Len(out) :
        a < b =>
            /\ ~(out[a].phase = 2 /\ out[b].phase = 1)
            /\ (out[a].phase = 1 /\ out[b].phase = 1)
                   => Ordinal(out[a].from) > Ordinal(out[b].from)
            /\ (out[a].phase = 2 /\ out[b].phase = 2)
                   => Ordinal(out[a].to) < Ordinal(out[b].to)

\* a run has completed with two renames in each phase
C7_Witness ==
    /\ pc = "done"
    /\ Cardinality({a \in 1..Len(out) : out[a].phase = 1}) >= 2
    /\ Cardinality({a \in 1..Len(out) : out[a].phase = 2}) >= 2

---------------------------------------------------------------------------
(* C8 *)

\* C8: of the directories that carried one old ordinal when the run
\* started, at most one has left its name; every other one has its name to
\* the end of the run.
C8_FirstMatchWins ==
    \A k \in OldOrdinals :
        Cardinality({d \in Carrying(fs0, k) : ~KeepsName(d)}) <= 1

---------------------------------------------------------------------------
(* C9 *)

Staged == {e \in fs : e.hops # <<>>}

\* C9: when a run with an injective map has completed, the temporary name
\* record has one entry per rename of phase 1, each entry's directory is in
\* the directory under its new ordinal, zero-padded to two digits, and its
\* label, and no directory the run renamed has a TEMP_ name.
C9_AllCommitted ==
    (pc = "done" /\ Injective) =>
        /\ Cardinality(DOMAIN temp_renames)
              = Cardinality({a \in 1..Len(out) : out[a].phase = 1})
        /\ Cardinality(DOMAIN temp_renames) = Cardinality(Staged)
        /\ \A n \in DOMAIN temp_renames :
              \E e \in Staged :
                  /\ e.hops = <<1, 2>>
                  /\ LeadingDigits(e.name) >= 2
                  /\ Ordinal(e.name) = n
                  /\ e.name = SubSeq(e.name, 1, LeadingDigits(e.name))
                                 \o <<".", " ">> \o temp_renames[n][2]
        /\ \A e \in Staged : ~HasTempPrefix(e.name)

\* a run with an injective map has completed after staging two directories,
\* one of them to a new ordinal below ten
C9_Witness ==
    /\ pc = "done"
    /\ Injective
    /\ Cardinality(Staged) >= 2
    /\ \E n \in DOMAIN temp_renames : n < 10

---------------------------------------------------------------------------
(* C10 *)

\* C10: a directory is renamed at most once in phase 1 and, after that, at
\* most once in phase 2.
C10_RenamedOnce == \A e \in fs : e.hops \in {<<>>, <<1>>, <<1, 2>>}

\* 33 -> 9 was staged before the key 9 was processed, 9 was processed with
\* a directory of its own, and the run has completed
C10_Witness ==
    /\ pc = "done"
    /\ renumbering = SourceMap
    /\ \E a \in Carrying(fs0, 33) : \E b \in Carrying(fs0, 9) :
          /\ \E e \in Now(a) : e.hops = <<1, 2>> /\ Ordinal(e.name) = 9
          /\ \E e \in Now(b) : e.hops = <<1, 2>> /\ Ordinal(e.name) = 11

=============================================================================
